---- MODULE Spec2Model ----
(***************************************************************************)
(* Round-robin leader / quorum consensus of assignment_4:                  *)
(*   consensus_protocol.py  (Transaction, ConsensusMessage,                *)
(*                           ConsensusProtocol)                            *)
(*   peer.py                (PeerNetwork: message loop and handlers)       *)
(*                                                                         *)
(* Strings are sequences of one-character strings.  A digest is the        *)
(* rendering of its own input between brackets, behind the run of '0'      *)
(* digits it starts with: two inputs have the same digest iff they are     *)
(* the same string.                                                        *)
(***************************************************************************)
EXTENDS Integers, Sequences, FiniteSets, TLC

\* ------------------------------------------------------------ bounds
MaxPeers == 4

MaxRound == 2

MaxMine == 1

\* passes of the loop of _run_consensus a leader makes where the passes of one
\* round are told apart
MaxPasses == 2

MaxInject == 2

OpenPeers == 2

\* peers that make a status round (each makes one)
MaxStatus == 2

\* peers of assignment_3 that are launched
MaxLaunched == 3

\* passes of connect_to_peers a Peer makes (max_retries, 10 in the source)
MaxRetries == 1
\* lines a Peer of assignment_3 reads that no Peer of the model wrote
MaxOutside == 1

PowModulus == 3

PowWindow == 6

\* ------------------------------------------------------------ program constants
target_zeros == 5

GenesisLen == 64

VARIABLES
    total_peers,        \* N, the command-line argument shared by all peers
    consensus,          \* consensus[p]: the ConsensusProtocol object of peer p
    connected,          \* connected[p]: PeerNetwork.connected
    writers,            \* writers[p]: the keys of PeerNetwork.writers
    reading,            \* reading[p]: peers whose _handle_messages loop is alive at p
    is_terminating,     \* PeerNetwork.is_terminating
    consensus_active,   \* PeerNetwork.consensus_active
    chan,               \* chan[q][p]: lines written by q to p, not yet read by p
    confirm_seen,       \* history: <<round, id>> of every CONFIRM_TX p has dispatched
    injected,           \* number of lines written by senders outside the protocol
    peer,               \* peer[p]: the Peer object of assignment_3 with id p
    net                 \* net[p]: the other attributes and the tasks of PeerNetwork p

vars == <<total_peers, consensus, connected, writers, reading, is_terminating,
          consensus_active, chan, confirm_seen, injected, peer, net>>

AllPeers == 0 .. (MaxPeers - 1)

Peers == 0 .. (total_peers - 1)

Rounds == 0 .. MaxRound

Payloads == {<<"a">>, <<"b">>}

\* ------------------------------------------------------------ strings
DigitChars == <<"0", "1", "2", "3", "4", "5", "6", "7", "8", "9">>

RECURSIVE Str(_)
\* f"{n}" for a non-negative int: its decimal digits
Str(n) == IF n < 10 THEN <<DigitChars[n + 1]>>
          ELSE Str(n \div 10) \o <<DigitChars[(n % 10) + 1]>>

Zeros(k) == [i \in 1 .. k |-> "0"]

Genesis == Zeros(GenesisLen)

StartsWith(s, prefix) ==
    /\ Len(s) >= Len(prefix)
    /\ SubSeq(s, 1, Len(prefix)) = prefix

\* the value a character adds to the weight of a string
CharCode ==
    [c \in {"0", "1", "2", "3", "4", "5", "6", "7", "8", "9", "a", "b", "[", "]"} |->
        CASE c = "1" -> 1 [] c = "2" -> 2 [] c = "3" -> 3 [] c = "4" -> 4
          [] c = "5" -> 5 [] c = "6" -> 6 [] c = "7" -> 7 [] c = "8" -> 8
          [] c = "9" -> 9 [] c = "a" -> 1 [] c = "b" -> 2 [] OTHER -> 0]

RECURSIVE CharSumTo(_, _)
CharSumTo(s, i) == IF i = 0 THEN 0 ELSE CharCode[s[i]] + CharSumTo(s, i - 1)

\* the weight of a string: that of its first PowWindow characters
Weight(s) == CharSumTo(s, IF Len(s) < PowWindow THEN Len(s) ELSE PowWindow)

\* how many '0' digits the digest of `data` starts with
LeadingZeros(data) ==
    LET w == Weight(data) % PowModulus
    IN  IF w = 0 THEN target_zeros ELSE (w - 1) % target_zeros

\* hashlib.sha256(data.encode()).hexdigest()
sha256(data) == Zeros(LeadingZeros(data)) \o <<"[">> \o data \o <<"]">>

\* ------------------------------------------------------------ Transaction
Transaction(sequence, payload, nonce, prev_hash, curr_hash, leader_id, round_id) ==
    [sequence |-> sequence, payload |-> payload, nonce |-> nonce,
     prev_hash |-> prev_hash, curr_hash |-> curr_hash,
     leader_id |-> leader_id, round_id |-> round_id]

calculate_hash(tx, nonce) ==
    sha256(Str(tx.sequence) \o tx.payload \o Str(nonce) \o tx.prev_hash
           \o Str(tx.round_id) \o Str(tx.leader_id))

\* ------------------------------------------------------------ ConsensusMessage
create_add_tx(tx) == [type |-> "ADD_TX", transaction |-> tx]

create_confirm_tx(round_id, peer_id) ==
    [type |-> "CONFIRM_TX", round_id |-> round_id, peer_id |-> peer_id]

create_commit_tx(tx) == [type |-> "COMMIT_TX", transaction |-> tx]

\* ------------------------------------------------------------ dictionaries
EmptyDict == <<>>

DictPut(d, k, v) == [x \in (DOMAIN d) \cup {k} |-> IF x = k THEN v ELSE d[x]]

DictDel(d, k) == [x \in (DOMAIN d) \ {k} |-> d[x]]

\* defaultdict(set): a missing key reads as the empty set
Confirmed(cs, round_id) ==
    IF round_id \in DOMAIN cs.confirmations THEN cs.confirmations[round_id] ELSE {}

\* ------------------------------------------------------------ ConsensusProtocol
ConsensusProtocol(peer_id, n) ==
    [peer_id |-> peer_id,
     total_peers |-> n,
     current_round |-> 0,
     chain |-> <<>>,
     pending_tx |-> EmptyDict,
     confirmations |-> EmptyDict,
     required_confirmations |-> (n \div 3) + 1,
     mining_attempts |-> <<>>,
     terminated |-> FALSE]

chain_length(cs) == Len(cs.chain)

\* is_leader with peer ids taken as 1-based
is_leader_one_based(cs, round_id) == (round_id % cs.total_peers) + 1 = cs.peer_id

is_leader(cs, round_id) == round_id % cs.total_peers = cs.peer_id

RECURSIVE mine_from(_, _, _)
\* the loop of _mine_block from the given nonce and attempt count
mine_from(tx, nonce, attempts) ==
    LET curr_hash == calculate_hash(tx, nonce)
    IN  IF StartsWith(curr_hash, Zeros(target_zeros))
        THEN [nonce |-> nonce, curr_hash |-> curr_hash, attempts |-> attempts + 1]
        ELSE mine_from(tx, nonce + 1, attempts + 1)

\* _mine_block starting at nonce 1
mine_block_from_one(tx) == mine_from(tx, 1, 0)

mine_block(tx) == mine_from(tx, 0, 0)

\* the block create_transaction builds before mining it
candidate(cs, round_id, payload) ==
    Transaction(Len(cs.chain), payload, 0,
                IF cs.chain # <<>> THEN cs.chain[Len(cs.chain)].curr_hash ELSE Genesis,
                <<>>, cs.peer_id, round_id)

\* create_transaction without its leader check
create_transaction_by_anyone(cs, round_id, payload) ==
    LET tx == candidate(cs, round_id, payload)
        m  == mine_block(tx)
    IN  [made |-> TRUE,
         tx   |-> [tx EXCEPT !.nonce = m.nonce, !.curr_hash = m.curr_hash],
         cs   |-> [cs EXCEPT !.mining_attempts = Append(@, m.attempts)]]

\* create_transaction: [made, tx, cs]; made = FALSE is the None result
create_transaction(cs, round_id, payload) ==
    IF ~is_leader(cs, round_id)
    THEN [made |-> FALSE, tx |-> candidate(cs, round_id, payload), cs |-> cs]
    ELSE LET tx == candidate(cs, round_id, payload)
             m  == mine_block(tx)
         IN  [made |-> TRUE,
              tx   |-> [tx EXCEPT !.nonce = m.nonce, !.curr_hash = m.curr_hash],
              cs   |-> [cs EXCEPT !.mining_attempts = Append(@, m.attempts)]]

\* verify_transaction without the chain linkage check
verify_no_linkage(cs, tx) ==
    /\ ~cs.terminated
    /\ ~(tx.round_id < cs.current_round)
    /\ ~(tx.leader_id # tx.round_id % cs.total_peers)
    /\ StartsWith(tx.curr_hash, Zeros(target_zeros))
    /\ ~(calculate_hash(tx, tx.nonce) # tx.curr_hash)

\* verify_transaction without the proof-of-work check
verify_no_pow(cs, tx) ==
    /\ ~cs.terminated
    /\ ~(tx.round_id < cs.current_round)
    /\ ~(tx.leader_id # tx.round_id % cs.total_peers)
    /\ IF cs.chain # <<>>
       THEN /\ ~(tx.prev_hash # cs.chain[Len(cs.chain)].curr_hash)
            /\ ~(tx.sequence # Len(cs.chain))
       ELSE ~(tx.prev_hash # Genesis \/ tx.sequence # 0)
    /\ ~(calculate_hash(tx, tx.nonce) # tx.curr_hash)

\* verify_transaction without the hash recomputation
verify_no_rehash(cs, tx) ==
    /\ ~cs.terminated
    /\ ~(tx.round_id < cs.current_round)
    /\ ~(tx.leader_id # tx.round_id % cs.total_peers)
    /\ IF cs.chain # <<>>
       THEN /\ ~(tx.prev_hash # cs.chain[Len(cs.chain)].curr_hash)
            /\ ~(tx.sequence # Len(cs.chain))
       ELSE ~(tx.prev_hash # Genesis \/ tx.sequence # 0)
    /\ StartsWith(tx.curr_hash, Zeros(target_zeros))

\* verify_transaction without the test of the terminated flag
verify_while_terminated(cs, tx) ==
    /\ ~(tx.round_id < cs.current_round)
    /\ ~(tx.leader_id # tx.round_id % cs.total_peers)
    /\ IF cs.chain # <<>>
       THEN /\ ~(tx.prev_hash # cs.chain[Len(cs.chain)].curr_hash)
            /\ ~(tx.sequence # Len(cs.chain))
       ELSE ~(tx.prev_hash # Genesis \/ tx.sequence # 0)
    /\ StartsWith(tx.curr_hash, Zeros(target_zeros))
    /\ ~(calculate_hash(tx, tx.nonce) # tx.curr_hash)

verify_transaction(cs, tx) ==
    /\ ~cs.terminated
    /\ ~(tx.round_id < cs.current_round)
    /\ ~(tx.leader_id # tx.round_id % cs.total_peers)
    /\ IF cs.chain # <<>>
       THEN /\ ~(tx.prev_hash # cs.chain[Len(cs.chain)].curr_hash)
            /\ ~(tx.sequence # Len(cs.chain))
       ELSE ~(tx.prev_hash # Genesis \/ tx.sequence # 0)
    /\ StartsWith(tx.curr_hash, Zeros(target_zeros))
    /\ ~(calculate_hash(tx, tx.nonce) # tx.curr_hash)

\* add_confirmation: [reached, cs]
add_confirmation(cs, round_id, peer_id) ==
    IF round_id # cs.current_round
    THEN [reached |-> FALSE, cs |-> cs]
    ELSE LET now == Confirmed(cs, round_id) \cup {peer_id}
         IN  [reached |-> Cardinality(now) >= cs.required_confirmations,
              cs |-> [cs EXCEPT !.confirmations = DictPut(@, round_id, now)]]

\* commit_transaction without its round guard
commit_unguarded(cs, tx) ==
    LET chain == Append(cs.chain, tx)
    IN  [cs EXCEPT
           !.chain = chain,
           !.pending_tx = IF tx.round_id \in DOMAIN @ THEN DictDel(@, tx.round_id) ELSE @,
           !.confirmations = IF tx.round_id \in DOMAIN @
                             THEN DictPut(@, tx.round_id, {}) ELSE @,
           !.current_round = tx.round_id + 1,
           !.terminated = IF Len(chain) >= cs.total_peers THEN TRUE ELSE @]

\* commit_transaction leaving the round's pending block in place
commit_keeps_pending(cs, tx) ==
    IF tx.round_id # cs.current_round
    THEN cs
    ELSE LET chain == Append(cs.chain, tx)
         IN  [cs EXCEPT
                !.chain = chain,
                !.confirmations = IF tx.round_id \in DOMAIN @
                                  THEN DictPut(@, tx.round_id, {}) ELSE @,
                !.current_round = tx.round_id + 1,
                !.terminated = IF Len(chain) >= cs.total_peers THEN TRUE ELSE @]

\* commit_transaction inserting the block at the front of the chain
commit_prepends(cs, tx) ==
    IF tx.round_id # cs.current_round
    THEN cs
    ELSE LET chain == <<tx>> \o cs.chain
         IN  [cs EXCEPT
                !.chain = chain,
                !.pending_tx = IF tx.round_id \in DOMAIN @ THEN DictDel(@, tx.round_id) ELSE @,
                !.confirmations = IF tx.round_id \in DOMAIN @
                                  THEN DictPut(@, tx.round_id, {}) ELSE @,
                !.current_round = tx.round_id + 1,
                !.terminated = IF Len(chain) >= cs.total_peers THEN TRUE ELSE @]

commit_transaction(cs, tx) ==
    IF tx.round_id # cs.current_round
    THEN cs
    ELSE LET chain == Append(cs.chain, tx)
         IN  [cs EXCEPT
                !.chain = chain,
                !.pending_tx = IF tx.round_id \in DOMAIN @ THEN DictDel(@, tx.round_id) ELSE @,
                !.confirmations = IF tx.round_id \in DOMAIN @
                                  THEN DictPut(@, tx.round_id, {}) ELSE @,
                !.current_round = tx.round_id + 1,
                !.terminated = IF Len(chain) >= cs.total_peers THEN TRUE ELSE @]

\* the value commit_transaction returns: the bare return of its round guard
\* and the end of its body both give None
commit_transaction_returns(cs, tx) ==
    IF tx.round_id # cs.current_round THEN "None" ELSE "None"

\* the truth value Python gives a returned value in an if
Truthy(value) == value \notin {"None", "False"}

\* ------------------------------------------------------------ PeerNetwork
NoMsg == [type |-> "none"]

\* what readline returns on a closed connection
EndOfStream == [type |-> "eof"]

\* a line that json.loads rejects, or that lacks the key "type"
Garbled == [type |-> "garbled"]

connect_msg(id) == [type |-> "connect", peer_id |-> id]

status_msg(id) == [type |-> "status", peer_id |-> id]

terminate_msg(id) == [type |-> "terminate", peer_id |-> id]

\* PeerNetwork.__init__, but for the attributes that have a variable of their
\* own.  A time is the number of times it has been taken (0: None); start is
\* where start() stands; mining holds while the peer is inside _mine_block;
\* closing are the peers whose writer has been closed; refused is the set of
\* peers whose port refused the dial of _connect_peers.
PeerNetwork(peer_id, n) ==
    [id |-> peer_id,
     total_peers |-> n,
     active_time |-> 0,
     fully_connected_time |-> 0,
     is_active |-> FALSE,
     is_fully_connected |-> FALSE,
     messages_received |-> {},
     server |-> FALSE,
     start |-> "new",
     status_task |-> FALSE,
     status_sent |-> 0,
     consensus_task |-> FALSE,
     mining |-> FALSE,
     closing |-> {},
     refused |-> {}]

\* _check_connections on the connected set conn
check_connections(nt, conn) ==
    LET active == Cardinality(conn) >= nt.total_peers \div 2 /\ ~nt.is_active
        full == Cardinality(conn) = nt.total_peers - 1 /\ ~nt.is_fully_connected
    IN  [nt EXCEPT !.is_active = @ \/ active,
                   !.active_time = IF active THEN @ + 1 ELSE @,
                   !.status_task = @ \/ active,
                   !.is_fully_connected = @ \/ full,
                   !.fully_connected_time = IF full THEN @ + 1 ELSE @]

\* what one handler call does: the new consensus object, the line it writes and
\* to whom, and whether it raised
Effect(cs, dests, msg, raised) ==
    [consensus |-> cs, dests |-> dests, msg |-> msg, raised |-> raised]

\* _broadcast_message: one write per writer (no writer is closing before shutdown)
broadcast_message(p) == writers[p]

\* ConsensusProtocol defines no attribute committed_rounds (and no __getattr__):
\* reading self.consensus.committed_rounds raises AttributeError
has_committed_rounds == FALSE

\* _handle_add_tx committing a verified block at once instead of recording it
handle_add_tx_commits(p, msg) ==
    LET cs == consensus[p]
        tx == msg.transaction
        leader_id == tx.round_id % total_peers
    IN  IF tx.round_id < cs.current_round
        THEN Effect(cs, {}, NoMsg, FALSE)
        ELSE IF verify_transaction(cs, tx)
        THEN Effect(commit_transaction(cs, tx),
                    IF leader_id \in writers[p] THEN {leader_id} ELSE {},
                    create_confirm_tx(tx.round_id, p), FALSE)
        ELSE Effect(cs, {}, NoMsg, FALSE)

\* _handle_add_tx recording and confirming the block without verifying it
handle_add_tx_unverified(p, msg) ==
    LET cs == consensus[p]
        tx == msg.transaction
        leader_id == tx.round_id % total_peers
    IN  Effect([cs EXCEPT !.pending_tx = DictPut(@, tx.round_id, tx)],
               IF leader_id \in writers[p] THEN {leader_id} ELSE {},
               create_confirm_tx(tx.round_id, p), FALSE)

\* _handle_add_tx sending its confirmation to every writer
handle_add_tx_confirms_all(p, msg) ==
    LET cs == consensus[p]
        tx == msg.transaction
    IN  IF tx.round_id < cs.current_round
        THEN Effect(cs, {}, NoMsg, FALSE)
        ELSE IF verify_transaction(cs, tx)
        THEN Effect([cs EXCEPT !.pending_tx = DictPut(@, tx.round_id, tx)],
                    writers[p], create_confirm_tx(tx.round_id, p), FALSE)
        ELSE Effect(cs, {}, NoMsg, FALSE)

handle_add_tx(p, msg) ==
    LET cs == consensus[p]
        tx == msg.transaction
        leader_id == tx.round_id % total_peers
    IN  IF tx.round_id < cs.current_round
        THEN Effect(cs, {}, NoMsg, FALSE)
        ELSE IF verify_transaction(cs, tx)
        THEN Effect([cs EXCEPT !.pending_tx = DictPut(@, tx.round_id, tx)],
                    IF leader_id \in writers[p] THEN {leader_id} ELSE {},
                    create_confirm_tx(tx.round_id, p), FALSE)
        ELSE Effect(cs, {}, NoMsg, FALSE)

\* _handle_confirm_tx counting every confirmation it reads
handle_confirm_tx_counts_all(p, msg) ==
    Effect(add_confirmation(consensus[p], msg.round_id, msg.peer_id).cs, {}, NoMsg, FALSE)

handle_confirm_tx(p, msg) ==
    LET cs == consensus[p]
        round_id == msg.round_id
        peer_id == msg.peer_id
    IN  IF round_id < cs.current_round
        THEN Effect(cs, {}, NoMsg, FALSE)
        ELSE IF ~has_committed_rounds
        THEN Effect(cs, {}, NoMsg, TRUE)
        ELSE IF is_leader(cs, round_id) /\ round_id \in DOMAIN cs.pending_tx
        THEN LET a == add_confirmation(cs, round_id, peer_id)
                 tx == cs.pending_tx[round_id]
             IN  IF a.reached
                 THEN Effect(commit_transaction(a.cs, tx), broadcast_message(p),
                             create_commit_tx(tx), FALSE)
                 ELSE Effect(a.cs, {}, NoMsg, FALSE)
        ELSE Effect(cs, {}, NoMsg, FALSE)

\* _handle_commit_tx committing the block without verifying it
handle_commit_tx_unverified(p, msg) ==
    Effect(commit_transaction(consensus[p], msg.transaction), {}, NoMsg, FALSE)

handle_commit_tx(p, msg) ==
    LET cs == consensus[p]
        tx == msg.transaction
    IN  IF verify_transaction(cs, tx)
        THEN Effect(commit_transaction(cs, tx), {}, NoMsg, FALSE)
        ELSE Effect(cs, {}, NoMsg, FALSE)

\* the line _handle_commit_tx logs about its commit, if any
handle_commit_tx_logs(p, msg) ==
    LET cs == consensus[p]
        tx == msg.transaction
    IN  IF verify_transaction(cs, tx)
        THEN IF Truthy(commit_transaction_returns(cs, tx))
             THEN "Successfully committed" ELSE "Failed to commit"
        ELSE "nothing"

\* the dispatch of _handle_messages on msg["type"]; a line that does not decode
\* raises inside the same try before any handler is called
dispatch(p, msg) ==
    CASE msg.type = "ADD_TX" -> handle_add_tx(p, msg)
      [] msg.type = "CONFIRM_TX" -> handle_confirm_tx(p, msg)
      [] msg.type = "COMMIT_TX" -> handle_commit_tx(p, msg)
      [] msg.type = "garbled" -> Effect(consensus[p], {}, NoMsg, TRUE)
      [] OTHER -> Effect(consensus[p], {}, NoMsg, FALSE)

\* the channels `c` after p wrote msg to every peer of dests
Written(c, p, dests, msg) ==
    [a \in Peers |-> [b \in Peers |->
        IF a = p /\ b \in dests THEN Append(c[a][b], msg) ELSE c[a][b]]]

\* one iteration of the loop of _handle_messages(reader, writer, q) at p on the
\* line msg, the channels being c once the line is read; the except clause
\* drops q and ends the loop
Handled(p, q, msg, c) ==
    LET e == dispatch(p, msg)
    IN  /\ consensus' = [consensus EXCEPT ![p] = e.consensus]
        /\ chan' = Written(c, p, e.dests, e.msg)
        /\ confirm_seen' = IF msg.type = "CONFIRM_TX"
                           THEN [confirm_seen EXCEPT
                                   ![p] = @ \cup {<<msg.round_id, msg.peer_id>>}]
                           ELSE confirm_seen
        /\ reading' = IF e.raised THEN [reading EXCEPT ![p] = @ \ {q}] ELSE reading
        /\ connected' = IF e.raised /\ q \in connected[p]
                        THEN [connected EXCEPT ![p] = @ \ {q}] ELSE connected
        /\ writers' = IF e.raised /\ q \in connected[p] /\ q \in writers[p]
                      THEN [writers EXCEPT ![p] = @ \ {q}] ELSE writers
        /\ UNCHANGED <<total_peers, is_terminating, consensus_active, peer, net>>

\* _terminate at p, the channels being c and the attributes of p being nt: the
\* flag, terminate to every writer, _cleanup closes every writer, every task of
\* self.tasks is cancelled and the calling handler raises CancelledError.  The
\* server and the task of start(), which is not in self.tasks, are left alone.
Terminated(p, c, nt) ==
    /\ is_terminating' = [is_terminating EXCEPT ![p] = TRUE]
    /\ chan' = Written(Written(c, p, writers[p] \ nt.closing, terminate_msg(p)),
                       p, writers[p] \ nt.closing, EndOfStream)
    /\ net' = [net EXCEPT ![p] = [nt EXCEPT !.status_task = FALSE,
                                            !.consensus_task = FALSE,
                                            !.closing = writers[p]]]
    /\ reading' = [reading EXCEPT ![p] = {}]
    /\ UNCHANGED <<total_peers, consensus, connected, writers, consensus_active,
                   confirm_seen, peer>>

\* _handle_status_message
handle_status_message(p, msg, c) ==
    LET nt == [net[p] EXCEPT !.messages_received = @ \cup {msg.peer_id}]
    IN  IF Cardinality(nt.messages_received) >= (2 * total_peers) \div 3
        THEN Terminated(p, c, nt)
        ELSE /\ net' = [net EXCEPT ![p] = nt]
             /\ chan' = c
             /\ UNCHANGED <<total_peers, consensus, connected, writers, reading,
                            is_terminating, consensus_active, confirm_seen, peer>>

\* one iteration of the loop of _handle_messages(reader, writer, q) at p on any
\* line: the end of the stream breaks out of the loop and nothing else
handle_line(p, q, msg, c) ==
    IF msg = EndOfStream
    THEN /\ reading' = [reading EXCEPT ![p] = @ \ {q}]
         /\ chan' = c
         /\ UNCHANGED <<total_peers, consensus, connected, writers, is_terminating,
                        consensus_active, confirm_seen, peer, net>>
    ELSE IF msg.type = "status" THEN handle_status_message(p, msg, c)
    ELSE IF msg.type = "terminate" THEN Terminated(p, c, net[p])
    ELSE Handled(p, q, msg, c)

\* p reads the next line q wrote to it (the connect line of a connection is
\* read by _handle_connection); no task of p runs while p is mining
handle_messages(p, q) ==
    /\ p \in Peers /\ q \in Peers
    /\ q \in reading[p]
    /\ ~is_terminating[p]
    /\ ~net[p].mining
    /\ chan[q][p] # <<>> /\ Head(chan[q][p]).type # "connect"
    /\ handle_line(p, q, Head(chan[q][p]), [chan EXCEPT ![q][p] = Tail(@)])
    /\ UNCHANGED injected

\* what a pass of _run_consensus in which p is the leader does to the consensus
\* object and the channels: create_transaction, then the broadcast of ADD_TX
proposes(p) ==
    \E payload \in Payloads :
        LET c == create_transaction(consensus[p], consensus[p].current_round, payload)
        IN  /\ consensus' = [consensus EXCEPT ![p] = c.cs]
            /\ chan' = IF c.made
                       THEN Written(chan, p, broadcast_message(p) \ net[p].closing,
                                    create_add_tx(c.tx))
                       ELSE chan

\* the pass of _run_consensus without its test of consensus_active
leads_within_ungated(p, passes) ==
    /\ p \in Peers
    /\ ~is_terminating[p]
    /\ net[p].consensus_task /\ ~net[p].mining
    /\ is_leader(consensus[p], consensus[p].current_round)
    /\ Len(consensus[p].mining_attempts) < passes

\* the loop of _run_consensus is at a pass in which p is the leader of its
\* round, p having mined fewer than `passes` blocks
leads_within(p, passes) ==
    /\ p \in Peers
    /\ ~is_terminating[p]
    /\ consensus_active[p]
    /\ net[p].consensus_task /\ ~net[p].mining
    /\ is_leader(consensus[p], consensus[p].current_round)
    /\ Len(consensus[p].mining_attempts) < passes

leads(p) == leads_within(p, MaxMine)

\* one pass of the loop of _run_consensus in which p is the leader of its round
run_consensus(p) ==
    /\ leads(p)
    /\ proposes(p)
    /\ UNCHANGED <<total_peers, connected, writers, reading, is_terminating,
                   consensus_active, confirm_seen, injected, peer, net>>

\* a pass of the loop of _run_consensus, the first or a later one
run_consensus_pass(p) ==
    /\ leads_within(p, MaxPasses)
    /\ proposes(p)
    /\ UNCHANGED <<total_peers, connected, writers, reading, is_terminating,
                   consensus_active, confirm_seen, injected, peer, net>>

\* the same pass in two steps.  _mine_block is a plain loop without an await:
\* from its first nonce to its last the event loop of p runs no other task.
mine_block_begins(p) ==
    /\ leads(p)
    /\ net' = [net EXCEPT ![p].mining = TRUE]
    /\ UNCHANGED <<total_peers, consensus, connected, writers, reading, is_terminating,
                   consensus_active, chan, confirm_seen, injected, peer>>

mine_block_ends(p) ==
    /\ p \in Peers
    /\ net[p].mining
    /\ proposes(p)
    /\ net' = [net EXCEPT ![p].mining = FALSE]
    /\ UNCHANGED <<total_peers, connected, writers, reading, is_terminating,
                   consensus_active, confirm_seen, injected, peer>>

\* start() up to its sleep: the server listens
start(p) ==
    /\ p \in Peers
    /\ net[p].start = "new"
    /\ net' = [net EXCEPT ![p].server = TRUE, ![p].start = "sleep"]
    /\ UNCHANGED <<total_peers, consensus, connected, writers, reading, is_terminating,
                   consensus_active, chan, confirm_seen, injected, peer>>

\* start() from the end of its sleep to serve_forever: the one pass of
\* _connect_peers over the peers not connected yet, a refused dial being
\* skipped, and the creation of the _run_consensus task.  A handler or a task
\* created while is_terminating is set leaves its loop at once.
connect_peers(p) ==
    /\ p \in Peers
    /\ net[p].start = "sleep"
    /\ LET reached == {j \in Peers \ {p} : j \notin connected[p] /\ net[j].server}
           refused == {j \in Peers \ {p} : j \notin connected[p] /\ ~net[j].server}
           conn == connected[p] \cup reached
           nt == IF reached = {} THEN net[p] ELSE check_connections(net[p], conn)
       IN  /\ connected' = [connected EXCEPT ![p] = conn]
           /\ writers' = [writers EXCEPT ![p] = @ \cup reached]
           /\ chan' = Written(chan, p, reached, connect_msg(p))
           /\ reading' = IF is_terminating[p] THEN reading
                         ELSE [reading EXCEPT ![p] = @ \cup reached]
           /\ consensus_active' = [consensus_active EXCEPT ![p] = @ \/ nt.is_active]
           /\ net' = [net EXCEPT ![p] =
                        [nt EXCEPT !.start = "serve",
                                   !.refused = @ \cup refused,
                                   !.closing = @ \ reached,
                                   !.status_task = @ /\ ~is_terminating[p],
                                   !.consensus_task = ~is_terminating[p]]]
    /\ UNCHANGED <<total_peers, consensus, is_terminating, confirm_seen, injected, peer>>

\* _handle_connection answering the connect line with one of its own
handle_connection_replies(p, q) ==
    /\ p \in Peers /\ q \in Peers
    /\ net[p].server /\ ~net[p].mining
    /\ chan[q][p] # <<>> /\ Head(chan[q][p]).type = "connect"
    /\ LET conn == connected[p] \cup {q}
           nt == check_connections(net[p], conn)
       IN  /\ connected' = [connected EXCEPT ![p] = conn]
           /\ writers' = [writers EXCEPT ![p] = @ \cup {q}]
           /\ chan' = Written([chan EXCEPT ![q][p] = Tail(@)], p, {q}, connect_msg(p))
           /\ reading' = IF is_terminating[p] THEN reading
                         ELSE [reading EXCEPT ![p] = @ \cup {q}]
           /\ consensus_active' = [consensus_active EXCEPT ![p] = @ \/ nt.is_active]
           /\ net' = [net EXCEPT ![p] =
                        [nt EXCEPT !.closing = @ \ {q},
                                   !.status_task = @ /\ ~is_terminating[p]]]
    /\ UNCHANGED <<total_peers, consensus, is_terminating, confirm_seen, injected, peer>>

\* _handle_connection at p for a connection q opened: the connect line, then
\* the loop of _handle_messages
handle_connection(p, q) ==
    /\ p \in Peers /\ q \in Peers
    /\ net[p].server /\ ~net[p].mining
    /\ chan[q][p] # <<>> /\ Head(chan[q][p]).type = "connect"
    /\ LET conn == connected[p] \cup {q}
           nt == check_connections(net[p], conn)
       IN  /\ connected' = [connected EXCEPT ![p] = conn]
           /\ writers' = [writers EXCEPT ![p] = @ \cup {q}]
           /\ chan' = [chan EXCEPT ![q][p] = Tail(@)]
           /\ reading' = IF is_terminating[p] THEN reading
                         ELSE [reading EXCEPT ![p] = @ \cup {q}]
           /\ consensus_active' = [consensus_active EXCEPT ![p] = @ \/ nt.is_active]
           /\ net' = [net EXCEPT ![p] =
                        [nt EXCEPT !.closing = @ \ {q},
                                   !.status_task = @ /\ ~is_terminating[p]]]
    /\ UNCHANGED <<total_peers, consensus, is_terminating, confirm_seen, injected, peer>>

\* one round of the loop of _status_broadcast
status_broadcast(p) ==
    /\ p \in Peers
    /\ net[p].status_task /\ ~is_terminating[p] /\ ~net[p].mining
    /\ net[p].status_sent = 0
    /\ Cardinality({x \in Peers : net[x].status_sent > 0}) < MaxStatus
    /\ net' = [net EXCEPT ![p].status_sent = @ + 1]
    /\ chan' = Written(chan, p, writers[p] \ net[p].closing, status_msg(p))
    /\ UNCHANGED <<total_peers, consensus, connected, writers, reading, is_terminating,
                   consensus_active, confirm_seen, injected, peer>>

\* the holder of q's end of a connection that p reads writes a line that does
\* not decode, or closes the connection
outside(p, q) ==
    /\ p \in Peers /\ q \in Peers
    /\ q \in reading[p]
    /\ injected < MaxOutside
    /\ \E line \in {Garbled, EndOfStream} :
         chan' = [chan EXCEPT ![q][p] = Append(@, line)]
    /\ injected' = injected + 1
    /\ UNCHANGED <<total_peers, consensus, connected, writers, reading, is_terminating,
                   consensus_active, confirm_seen, peer, net>>

\* ------------------------------------------------------------ assignment_3 Peer
\* Peer.__init__.  A time is the number of times it has been taken (0: None);
\* start is where start() stands; readers are the peers whose handle_messages
\* task is alive, waiting those of them held in broadcast_terminate.
Peer(peer_id, n) ==
    [id |-> peer_id,
     total_peers |-> n,
     connected |-> {},
     messages_received |-> {},
     active_time |-> 0,
     fully_connected_time |-> 0,
     server |-> FALSE,
     terminate_received |-> FALSE,
     writers |-> {},
     is_active |-> FALSE,
     all_peers_connected |-> FALSE,
     can_terminate |-> FALSE,
     readers |-> {},
     waiting |-> {},
     status_task |-> FALSE,
     status_sent |-> 0,
     retry_count |-> 0,
     start |-> "new"]

Peer_connect_msg(id) == [type |-> "connect", peer_id |-> id]

Peer_status_msg(id) == [type |-> "status", peer_id |-> id]

Peer_terminate_msg(id) == [type |-> "terminate", peer_id |-> id]

\* what one step of a Peer does: its object afterwards, the line it writes and
\* to whom, and the peers whose connection it closes
Outcome(pr, dests, line, closes) ==
    [pr |-> pr, dests |-> dests, line |-> line, closes |-> closes]

\* the 'active' transition shared by connect_to_peers and handle_connection
Peer_check_active(pr) ==
    IF Cardinality(pr.connected) >= pr.total_peers \div 2 /\ ~pr.is_active
    THEN [pr EXCEPT !.is_active = TRUE, !.active_time = @ + 1, !.status_task = TRUE]
    ELSE pr

\* the 'fully connected' transition shared by connect_to_peers and handle_connection
Peer_check_full(pr) ==
    IF Cardinality(pr.connected) = pr.total_peers - 1
    THEN [pr EXCEPT !.fully_connected_time = @ + 1, !.all_peers_connected = TRUE]
    ELSE pr

\* close_connection(peer_id, writer)
Peer_close_connection(pr, q) ==
    [pr EXCEPT !.connected = @ \ {q}, !.writers = @ \ {q},
               !.readers = @ \ {q}, !.waiting = @ \ {q}]

\* close_gracefully leaving the other tasks of the peer alone
Peer_close_gracefully_no_cancel(pr) ==
    [pr EXCEPT !.connected = {}, !.writers = {},
               !.server = FALSE,
               !.start = IF @ = "sleep" THEN "sleep" ELSE "done"]

\* close_gracefully: every other task is cancelled, every connection and the
\* server are closed; serve_forever (or the awaited connect task) is cancelled
\* with them and start() returns, unless start() is still in its first sleep
Peer_close_gracefully(pr) ==
    [pr EXCEPT !.connected = {}, !.writers = {}, !.readers = {}, !.waiting = {},
               !.status_task = FALSE, !.server = FALSE,
               !.start = IF @ = "sleep" THEN "sleep" ELSE "done"]

\* handle_terminate called in the handle_messages task of the connection to q.
\* The f-string {self.active_time:.2f} raises TypeError while active_time is
\* None; the caller's except clause logs it and its finally clause closes q.
Peer_handle_terminate(pr, q) ==
    IF pr.terminate_received
    THEN Outcome(Peer_close_connection(pr, q), {}, EndOfStream, {q})
    ELSE IF pr.active_time = 0
    THEN Outcome(Peer_close_connection([pr EXCEPT !.terminate_received = TRUE], q),
                 {}, EndOfStream, {q})
    ELSE Outcome(Peer_close_gracefully([pr EXCEPT !.terminate_received = TRUE]),
                 {}, EndOfStream, pr.writers \cup pr.readers)

\* broadcast_terminate past its wait, in the handle_messages task of q
Peer_send_terminate(pr, q) ==
    LET h == Peer_handle_terminate([pr EXCEPT !.can_terminate = TRUE], q)
    IN  Outcome(h.pr, pr.writers, Peer_terminate_msg(pr.id), h.closes)

\* broadcast_terminate without its wait for all_peers_connected
Peer_broadcast_terminate_at_once(pr, q) == Peer_send_terminate(pr, q)

\* broadcast_terminate in the handle_messages task of q: held at
\* all_peers_connected.wait() until the event is set
Peer_broadcast_terminate(pr, q) ==
    IF ~pr.can_terminate /\ ~pr.all_peers_connected
    THEN Outcome([pr EXCEPT !.waiting = @ \cup {q}], {}, EndOfStream, {})
    ELSE Peer_send_terminate(pr, q)

\* the while condition of handle_messages after a line was handled without a
\* return: the loop ends and the finally clause closes q
Peer_loop(o, q) ==
    IF o.pr.terminate_received /\ q \in o.pr.readers /\ q \notin o.pr.waiting
    THEN Outcome(Peer_close_connection(o.pr, q), o.dests, o.line, o.closes \cup {q})
    ELSE o

\* the body of the loop of handle_messages(reader, writer, q) on one line
Peer_on_line(pr, q, message) ==
    CASE message.type = "eof" ->
            Outcome(Peer_close_connection(pr, q), {}, EndOfStream, {q})
      [] message.type = "status" /\ pr.is_active ->
            LET got == [pr EXCEPT !.messages_received = @ \cup {message.peer_id}]
            IN  IF Cardinality(got.messages_received) >= (2 * pr.total_peers) \div 3
                THEN Peer_loop(Peer_broadcast_terminate(got, q), q)
                ELSE Peer_loop(Outcome(got, {}, EndOfStream, {}), q)
      [] message.type = "terminate" -> Peer_handle_terminate(pr, q)
      [] OTHER -> Peer_loop(Outcome(pr, {}, EndOfStream, {}), q)

\* a Peer that reads no line any more: terminated, server closed, no task left
Peer_gone(pr) == pr.terminate_received /\ ~pr.server /\ pr.readers = {}

\* the connection from a to b has a reading end at b, or will have one once b
\* has handled the connect line in w
Peer_heard(a, b, w) ==
    \/ a \in peer[b].readers
    \/ \E i \in 1 .. Len(w) : w[i].type = "connect"

\* the channels c after p wrote o.line to o.dests and then closed o.closes.
\* A connection already closed by p is not closed again; a line written to a
\* connection whose other end reads no more is lost, and so are the lines
\* still unread by a peer that reads no more.
Peer_wire(c, p, o) ==
    [a \in Peers |-> [b \in Peers |->
        IF a # p
        THEN IF b = p /\ Peer_gone(o.pr) THEN <<>> ELSE c[a][b]
        ELSE LET w == IF b \in o.dests
                         /\ (o.line.type = "connect" \/ Peer_heard(a, b, c[a][b]))
                      THEN Append(c[a][b], o.line) ELSE c[a][b]
             IN  IF b \in o.closes /\ Peer_heard(a, b, w)
                    /\ (w = <<>> \/ w[Len(w)] # EndOfStream)
                 THEN Append(w, EndOfStream) ELSE w]]

\* the variables of assignment_4 that a step of a Peer leaves alone
Peer_frame ==
    UNCHANGED <<total_peers, consensus, connected, writers, reading, is_terminating,
                consensus_active, confirm_seen, net>>

\* start() up to its sleep: the server listens.  bootstrap_network launches
\* the peers in the order of their ids.
Peer_start(p) ==
    /\ p \in Peers
    /\ peer[p].start = "new"
    /\ \A x \in Peers : x < p => peer[x].start # "new"
    /\ p < MaxLaunched
    /\ peer' = [peer EXCEPT ![p].server = TRUE, ![p].start = "sleep"]
    /\ UNCHANGED chan
    /\ UNCHANGED injected
    /\ Peer_frame

\* start() after the connect task: serve_forever, which raises on a closed server
Peer_serve(pr) == IF pr.server THEN "serve" ELSE "done"

\* one pass of the while loop of connect_to_peers: try_connect_peer reaches the
\* peers that listen, then the two transitions, then the retry count
Peer_connect_to_peers(p) ==
    /\ p \in Peers
    /\ peer[p].start \in {"sleep", "connect"}
    /\ LET pr == peer[p]
           reached == {j \in Peers \ {p} : j \notin pr.connected /\ peer[j].server}
           kept == IF pr.terminate_received THEN {} ELSE reached
           on == [pr EXCEPT !.connected = @ \cup reached, !.writers = @ \cup reached,
                            !.readers = @ \cup kept]
           act == Peer_check_active(on)
           full == Peer_check_full(act)
           off == IF pr.terminate_received
                  THEN [full EXCEPT !.connected = @ \ reached, !.writers = @ \ reached]
                  ELSE full
       IN  IF ~(Cardinality(pr.connected) < pr.total_peers - 1
                /\ pr.retry_count < MaxRetries)
           THEN /\ peer' = [peer EXCEPT ![p].start = Peer_serve(pr)]
                /\ UNCHANGED chan
           ELSE /\ peer' = [peer EXCEPT ![p] =
                      IF Cardinality(on.connected) = pr.total_peers - 1
                      THEN [off EXCEPT !.start = Peer_serve(pr)]
                      ELSE [off EXCEPT !.retry_count = @ + 1, !.start = "connect"]]
                /\ chan' = Peer_wire(chan, p,
                      Outcome(off, reached, Peer_connect_msg(p),
                              IF pr.terminate_received THEN reached ELSE {}))
    /\ UNCHANGED injected
    /\ Peer_frame

\* handle_connection: the first line of an accepted connection
Peer_handle_connection(p, q) ==
    /\ p \in Peers /\ q \in Peers
    /\ peer[p].server
    /\ chan[q][p] # <<>>
    /\ Head(chan[q][p]).type = "connect"
    /\ LET pr == peer[p]
           on == [pr EXCEPT !.connected = @ \cup {q}, !.writers = @ \cup {q}]
           full == Peer_check_full(Peer_check_active(on))
           o == IF pr.terminate_received
                THEN Outcome(Peer_close_connection(full, q), {}, EndOfStream, {q})
                ELSE Outcome([full EXCEPT !.readers = @ \cup {q}], {}, EndOfStream, {})
       IN  /\ peer' = [peer EXCEPT ![p] = o.pr]
           /\ chan' = Peer_wire([chan EXCEPT ![q][p] = Tail(@)], p, o)
    /\ UNCHANGED injected
    /\ Peer_frame

\* one round of periodic_status_broadcast
Peer_periodic_status_broadcast(p) ==
    /\ p \in Peers
    /\ peer[p].status_task
    /\ ~peer[p].terminate_received /\ peer[p].is_active
    /\ peer[p].status_sent = 0
    /\ Cardinality({x \in Peers : peer[x].status_sent > 0}) < MaxStatus
    /\ peer' = [peer EXCEPT ![p].status_sent = @ + 1]
    /\ chan' = Peer_wire(chan, p,
                  Outcome(peer[p], peer[p].writers, Peer_status_msg(p), {}))
    /\ UNCHANGED injected
    /\ Peer_frame

\* handle_messages(reader, writer, q) at p reads the next line
Peer_handle_messages(p, q) ==
    /\ p \in Peers /\ q \in Peers
    /\ q \in peer[p].readers /\ q \notin peer[p].waiting
    /\ chan[q][p] # <<>>
    /\ Head(chan[q][p]).type # "connect"
    /\ LET o == Peer_on_line(peer[p], q, Head(chan[q][p]))
       IN  /\ peer' = [peer EXCEPT ![p] = o.pr]
           /\ chan' = Peer_wire([chan EXCEPT ![q][p] = Tail(@)], p, o)
    /\ UNCHANGED injected
    /\ Peer_frame

\* handle_messages(reader, writer, q) at p reads a line that the holder of
\* connection q wrote on its own: a Status in any peer's name, or a Terminate
Peer_receive(p, q) ==
    /\ p \in Peers /\ q \in Peers
    /\ q \in peer[p].readers /\ q \notin peer[p].waiting
    /\ injected < MaxOutside
    /\ \E message \in {Peer_status_msg(x) : x \in Peers \ {p}} \cup {Peer_terminate_msg(q)} :
         LET o == Peer_on_line(peer[p], q, message)
         IN  /\ peer' = [peer EXCEPT ![p] = o.pr]
             /\ chan' = Peer_wire(chan, p, o)
    /\ injected' = injected + 1
    /\ Peer_frame

\* all_peers_connected is set: the task held in broadcast_terminate goes on
Peer_resume(p, q) ==
    /\ p \in Peers /\ q \in Peers
    /\ q \in peer[p].waiting
    /\ peer[p].all_peers_connected
    /\ LET o == Peer_send_terminate([peer[p] EXCEPT !.waiting = @ \ {q}], q)
       IN  /\ peer' = [peer EXCEPT ![p] = o.pr]
           /\ chan' = Peer_wire(chan, p, o)
    /\ UNCHANGED injected
    /\ Peer_frame

\* ------------------------------------------------------------ initial states
\* N peers of which the set `up` was started, one after the other: each pair of
\* started peers holds one connection, no line is in flight
Bootstrapped(n, up) ==
    /\ total_peers = n
    /\ consensus = [p \in 0 .. (n - 1) |-> ConsensusProtocol(p, n)]
    /\ connected = [p \in 0 .. (n - 1) |-> IF p \in up THEN up \ {p} ELSE {}]
    /\ writers = connected
    /\ reading = connected
    /\ is_terminating = [p \in 0 .. (n - 1) |-> FALSE]
    /\ consensus_active =
         [p \in 0 .. (n - 1) |-> connected[p] # {} /\ Cardinality(connected[p]) >= n \div 2]
    /\ chan = [a \in 0 .. (n - 1) |-> [b \in 0 .. (n - 1) |-> <<>>]]
    /\ confirm_seen = [p \in 0 .. (n - 1) |-> {}]
    /\ injected = 0
    /\ peer = [p \in 0 .. (n - 1) |-> Peer(p, n)]
    /\ net = [p \in 0 .. (n - 1) |->
                IF p \in up
                THEN [check_connections(PeerNetwork(p, n), up \ {p})
                        EXCEPT !.server = TRUE, !.start = "serve",
                               !.consensus_task = TRUE]
                ELSE PeerNetwork(p, n)]

\* ------------------------------------------------------------ outside senders
\* The peer reads lines from whoever holds the other end of a connection.  The
\* blocks such a sender may put in a line: on top of the genesis sentinel or of
\* any peer's chain, for each round and payload, the block honest mining gives
\* and that block with one part off.
Tips ==
    {[sequence |-> 0, prev_hash |-> Genesis]} \cup
    {[sequence |-> Len(consensus[x].chain),
      prev_hash |-> consensus[x].chain[Len(consensus[x].chain)].curr_hash] :
        x \in {y \in Peers : consensus[y].chain # <<>>}}

Sealed(tip, round_id, payload) ==
    LET tx == Transaction(tip.sequence, payload, 0, tip.prev_hash, <<>>,
                          round_id % total_peers, round_id)
        m  == mine_block(tx)
    IN  [tx EXCEPT !.nonce = m.nonce, !.curr_hash = m.curr_hash]

\* b with one part off: 0 leaves b as mined
Tampered(b, how) ==
    CASE how = 1 -> [b EXCEPT !.nonce = b.nonce + 1]
      [] how = 2 -> [b EXCEPT !.nonce = b.nonce + 1,
                              !.curr_hash = calculate_hash(b, b.nonce + 1)]
      [] how = 3 -> [b EXCEPT !.leader_id = (b.leader_id + 1) % total_peers]
      [] how = 4 -> [b EXCEPT !.sequence = b.sequence + 1]
      [] OTHER -> b

TamperKinds == 0 .. 4

\* the rounds an outside sender to p writes about: up to the one after p's
NearRounds(p) == {r \in Rounds : r <= consensus[p].current_round + 1}

\* p reads a line that the holder of connection q wrote outside the protocol
receive(p, q) ==
    /\ p \in Peers /\ q \in Peers
    /\ q \in reading[p]
    /\ ~is_terminating[p]
    /\ injected < MaxInject
    /\ \/ \E t \in Tips : \E r \in NearRounds(p) : \E pl \in Payloads :
          \E how \in TamperKinds :
            LET b == Tampered(Sealed(t, r, pl), how)
            IN  \/ Handled(p, q, create_add_tx(b), chan)
                \/ Handled(p, q, create_commit_tx(b), chan)
       \/ \E r \in NearRounds(p) : Handled(p, q, create_confirm_tx(r, q), chan)
    /\ injected' = injected + 1

Init == \E n \in 2 .. MaxPeers : \E up \in SUBSET (0 .. (n - 1)) : Bootstrapped(n, up)

Next ==
    \/ \E p \in AllPeers : run_consensus(p)
    \/ \E p \in AllPeers : \E q \in AllPeers : handle_messages(p, q)

Spec == Init /\ [][Next]_vars

\* the event loop runs every task that is ready: a mining pass that is due is
\* made, a line that has arrived on a connection being read is read
FairSpec ==
    /\ Spec
    /\ \A p \in AllPeers : WF_vars(run_consensus(p))
    /\ \A p \in AllPeers : \A q \in AllPeers : WF_vars(handle_messages(p, q))

\* the honest network in which a leader makes more than one pass of its loop
NextRepeat ==
    \/ \E p \in AllPeers : run_consensus_pass(p)
    \/ \E p \in AllPeers : \E q \in AllPeers : handle_messages(p, q)

SpecRepeat == Init /\ [][NextRepeat]_vars

\* a network of started peers in which the peer with the last id also writes
\* lines outside the protocol, and no line written inside it has been read yet
InitOpen == \E n \in 2 .. OpenPeers : Bootstrapped(n, 0 .. (n - 1))

NextOpen ==
    \/ \E p \in AllPeers : run_consensus(p)
    \/ \E p \in AllPeers : receive(p, total_peers - 1)

SpecOpen == InitOpen /\ [][NextOpen]_vars

\* a network of assignment_3 peers, none of them started yet, in which the
\* holder of the connection between peers 0 and 1 also writes lines of its own
\* to peer 1
InitPeer ==
    \E n \in 2 .. MaxPeers : Bootstrapped(n, {})

NextPeer ==
    \/ \E p \in AllPeers : Peer_start(p)
    \/ \E p \in AllPeers : Peer_connect_to_peers(p)
    \/ \E p \in AllPeers : \E q \in AllPeers : Peer_handle_connection(p, q)
    \/ \E p \in AllPeers : Peer_periodic_status_broadcast(p)
    \/ \E p \in AllPeers : \E q \in AllPeers : Peer_handle_messages(p, q)
    \/ \E p \in AllPeers : \E q \in AllPeers : Peer_resume(p, q)
    \/ Peer_receive(1, 0)

SpecPeer == InitPeer /\ [][NextPeer]_vars

\* a network of assignment_4 peers, none of them started yet, in which the
\* other end of a connection may also be closed or send a line that does not
\* decode
InitNet ==
    \E n \in 2 .. OpenPeers : Bootstrapped(n, {})

NextNet ==
    \/ \E p \in AllPeers : start(p)
    \/ \E p \in AllPeers : connect_peers(p)
    \/ \E p \in AllPeers : \E q \in AllPeers : handle_connection(p, q)
    \/ \E p \in AllPeers : status_broadcast(p)
    \/ \E p \in AllPeers : mine_block_begins(p)
    \/ \E p \in AllPeers : mine_block_ends(p)
    \/ \E p \in AllPeers : \E q \in AllPeers : handle_messages(p, q)
    \/ \E p \in AllPeers : \E q \in AllPeers : outside(p, q)

SpecNet == InitNet /\ [][NextNet]_vars

\* ------------------------------------------------------------ claims
Chain(p) == consensus[p].chain

Quorum == (total_peers \div 3) + 1

\* C1.  Liveness, N = 4, fair scheduling, reliable channels: once peer 0 has
\* mined and broadcast AddTx for round 0 and peers 1-3 have each recorded the
\* block and replied with ConfirmTx, eventually every peer has chain length 1
\* and current_round = 1.
C1_Proposed ==
    /\ total_peers = 4
    /\ consensus[0].mining_attempts # <<>>
    /\ \A q \in 1 .. 3 : 0 \in DOMAIN consensus[q].pending_tx

C1_Done ==
    \A p \in Peers : Len(Chain(p)) = 1 /\ consensus[p].current_round = 1

C1_Liveness == C1_Proposed ~> C1_Done

\* C2.  Chain linkage: in every reachable state, for every peer, the first block
\* of its chain has the genesis sentinel as prev_hash and every later block has
\* the curr_hash of the block before it as prev_hash.
C2_ChainLinkage ==
    \A p \in Peers :
        /\ Chain(p) # <<>> => Chain(p)[1].prev_hash = Genesis
        /\ \A k \in 2 .. Len(Chain(p)) : Chain(p)[k].prev_hash = Chain(p)[k - 1].curr_hash

C2_Witness == \E p \in Peers : Len(Chain(p)) >= 2

\* C4.  Every block of any peer's chain has curr_hash equal to the hash
\* recomputed with its nonce, and that hash starts with target_zeros '0' digits.
C4_SealedBlocks ==
    \A p \in Peers : \A k \in 1 .. Len(Chain(p)) :
        /\ calculate_hash(Chain(p)[k], Chain(p)[k].nonce) = Chain(p)[k].curr_hash
        /\ StartsWith(Chain(p)[k].curr_hash, Zeros(target_zeros))

C4_Witness ==
    \E p \in Peers : Chain(p) # <<>> /\ Chain(p)[1].nonce > 0

\* C5.  Quorum response: when the leader of round r holds a pending block for r
\* and a ConfirmTx brings its confirmation set for r to floor(N/3)+1 distinct
\* ids, handling that ConfirmTx broadcasts CommitTx(block) to all connected
\* peers and appends the block to the leader's own chain.
C5_QuorumResponse ==
    \A p \in Peers : \A q \in Peers \ {p} : \A r \in Rounds :
        LET cs == consensus[p]
            e  == handle_confirm_tx(p, create_confirm_tx(r, q))
        IN  ( /\ is_leader(cs, r)
              /\ r = cs.current_round
              /\ r \in DOMAIN cs.pending_tx
              /\ q \notin Confirmed(cs, r)
              /\ Cardinality(Confirmed(cs, r) \cup {q}) = Quorum )
            => /\ ~e.raised
               /\ e.dests = connected[p]
               /\ e.msg = create_commit_tx(cs.pending_tx[r])
               /\ e.consensus.chain = Append(cs.chain, cs.pending_tx[r])

\* the ids whose ConfirmTx for round r its leader has read
ConfirmersOf(r) == {q \in Peers : <<r, q>> \in confirm_seen[r % total_peers]}

C7_CommitIdempotent ==
    \A p \in Peers : \A k \in 1 .. Len(Chain(p)) : \A pl \in Payloads :
        commit_transaction(consensus[p], [Chain(p)[k] EXCEPT !.payload = pl])
            = consensus[p]

C7_Witness ==
    \E p \in Peers : Len(Chain(p)) = 1 /\ DOMAIN consensus[p].pending_tx # {}

\* the blocks mined on top of p's chain, one per round and payload
MinedOn(p) ==
    LET tip == [sequence |-> Len(Chain(p)),
                prev_hash |-> IF Chain(p) # <<>>
                              THEN Chain(p)[Len(Chain(p))].curr_hash ELSE Genesis]
    IN  {Sealed(tip, r, pl) : <<r, pl>> \in Rounds \X Payloads}

\* b with exactly one of sequence, prev_hash, nonce, round_id, leader_id changed
OneFieldOff(b) ==
    {[b EXCEPT !.sequence = v] : v \in (0 .. (MaxRound + 1)) \ {b.sequence}} \cup
    {[b EXCEPT !.prev_hash = v] :
        v \in {Genesis, b.curr_hash, Zeros(target_zeros)} \ {b.prev_hash}} \cup
    {[b EXCEPT !.nonce = v] : v \in (0 .. (PowModulus + 1)) \ {b.nonce}} \cup
    {[b EXCEPT !.round_id = v] : v \in (0 .. (MaxRound + MaxPeers)) \ {b.round_id}} \cup
    {[b EXCEPT !.leader_id = v] : v \in AllPeers \ {b.leader_id}}

\* C8.  Non-malleability: a block that passes verify_transaction at a peer no
\* longer passes it there once exactly one of sequence, prev_hash, nonce,
\* round_id, leader_id is changed to a different value.
C8_NonMalleable ==
    \A p \in Peers : \A b \in MinedOn(p) :
        verify_transaction(consensus[p], b)
            => \A c \in OneFieldOff(b) : ~verify_transaction(consensus[p], c)

C8_Witness ==
    \E p \in Peers :
        /\ Chain(p) # <<>>
        /\ \E b \in MinedOn(p) : verify_transaction(consensus[p], b)

\* C9.  Leader function: peer p takes itself for the leader of round r iff
\* r mod N = p, so every round has exactly one leader among the N peers.
C9_LeaderFunction ==
    \A r \in 0 .. (MaxRound + MaxPeers) :
        /\ \A p \in Peers : is_leader(consensus[p], r) <=> (r % total_peers = p)
        /\ Cardinality({p \in Peers : is_leader(consensus[p], r)}) = 1

C9_Witness ==
    \E p \in Peers :
        /\ consensus[p].mining_attempts # <<>>
        /\ chan[p][(p + 1) % total_peers] # <<>>

\* C10.  current_round never decreases: no step of any peer lowers it, and
\* commit_transaction lowers it for no block, whatever the block's round.
C10_RoundMonotonic ==
    /\ [](\A p \in Peers : \A t \in Tips : \A r \in Rounds : \A pl \in Payloads :
            commit_transaction(consensus[p], Sealed(t, r, pl)).current_round
                >= consensus[p].current_round)
    /\ [][\A p \in Peers :
            consensus'[p].current_round >= consensus[p].current_round]_vars

C10_Witness == \E p \in Peers : consensus[p].current_round >= 2

\* C11.  The chain is append-only: it is empty at the start, and every step
\* leaves each peer's chain as it was or adds exactly one block at its end,
\* the blocks already there staying as they are and where they are.
C11_AppendOnly ==
    /\ \A p \in Peers : Chain(p) = <<>>
    /\ [][\A p \in Peers :
            \/ consensus'[p].chain = consensus[p].chain
            \/ /\ Len(consensus'[p].chain) = Len(consensus[p].chain) + 1
               /\ SubSeq(consensus'[p].chain, 1, Len(consensus[p].chain))
                     = consensus[p].chain]_vars

C11_Witness ==
    \E p \in Peers :
        /\ Len(Chain(p)) = 2
        /\ Chain(p)[2].sequence = 1
        /\ Chain(p)[1].sequence = 0

\* C12.  Chain-length termination: once a peer's chain holds N blocks, no step
\* changes its consensus state (pending table, confirmation sets, chain, mining
\* record) and no step has it write a line: it handles no further AddTx or
\* ConfirmTx and proposes no further block.
C12_TerminatedQuiet ==
    [][\A p \in Peers :
          Len(consensus[p].chain) >= total_peers
              => /\ consensus'[p] = consensus[p]
                 /\ \A q \in Peers : chan'[p][q] = chan[p][q]]_vars

\* no task of any Peer has a step left: every connect pass is over, every line
\* is read, no task waits on an event that is set
Peer_quiet ==
    ~ ENABLED (\/ \E p \in AllPeers : Peer_connect_to_peers(p)
               \/ \E p \in AllPeers : \E q \in AllPeers : Peer_handle_connection(p, q)
               \/ \E p \in AllPeers : Peer_periodic_status_broadcast(p)
               \/ \E p \in AllPeers : \E q \in AllPeers : Peer_handle_messages(p, q)
               \/ \E p \in AllPeers : \E q \in AllPeers : Peer_resume(p, q))

\* C13. A peer that has received Status from at least floor(2N/3) distinct
\* senders eventually broadcasts Terminate and shuts down, whatever its
\* connectivity (assignment_3 Peer): when the tasks of the network have come
\* to rest, such a peer has terminated.
C13_GossipTerminates ==
    \A p \in Peers :
        (Cardinality(peer[p].messages_received) >= (2 * peer[p].total_peers) \div 3
         /\ Peer_quiet)
            => peer[p].terminate_received

\* C14. A peer that receives Terminate, from any sender and in any local state
\* (before it became active included), shuts down: its flag is set, its
\* channels and its listening endpoint are closed, and no task of it sends
\* Status any more (assignment_3 Peer, once start() is past its first sleep).
C14_TerminateShutsDown ==
    \A p \in Peers :
        (peer[p].terminate_received /\ peer[p].start \in {"serve", "done"})
            => /\ ~peer[p].server
               /\ ~peer[p].status_task
               /\ peer[p].writers = {}
               /\ peer[p].start = "done"

\* C15. Both connectivity transitions are edge-triggered: a peer records
\* becoming active once and becoming fully connected once, also when a peer
\* id connects again while it is in the connected set (assignment_3 Peer).
C15_TransitionsOnce ==
    \A p \in Peers :
        /\ peer[p].active_time <= 1
        /\ peer[p].fully_connected_time <= 1

\* C16. Malformed input does not end the read loop: when p reads from q a line
\* that fails to decode, the line is dropped, q stays in p's connected set and
\* p goes on reading that channel (assignment_4 PeerNetwork).
C16_MalformedDropped ==
    [][\A p \in Peers : \A q \in Peers :
          (/\ q \in reading[p] /\ q \in connected[p]
           /\ chan[q][p] # <<>> /\ Head(chan[q][p]) = Garbled
           /\ chan'[q][p] = Tail(chan[q][p]))
              => q \in connected'[p] /\ q \in reading'[p]]_vars

\* C17. When p reads the end of the stream on its channel to q, q leaves p's
\* connected set and p's writers map, and p does not start terminating
\* (assignment_4 PeerNetwork).
C17_ClosedChannelForgotten ==
    [][\A p \in Peers : \A q \in Peers :
          (/\ q \in reading[p]
           /\ chan[q][p] # <<>> /\ Head(chan[q][p]) = EndOfStream
           /\ chan'[q][p] = Tail(chan[q][p]))
              => /\ q \notin connected'[p]
                 /\ q \notin writers'[p]
                 /\ ~is_terminating'[p]]_vars

\* C18. A dial that was refused because j was not listening yet is made again:
\* as long as p is not connected to j, which listens by now, p's connection
\* routine is not over (assignment_4 PeerNetwork).
C18_RefusedDialRetried ==
    \A p \in Peers : \A j \in Peers :
        (/\ j \in net[p].refused
         /\ net[j].server
         /\ j \notin connected[p]
         /\ ~is_terminating[p] /\ ~is_terminating[j])
            => net[p].start # "serve"

\* C19. Mining does not starve message handling: while p is mining, a line
\* that has arrived on a channel p reads can be handled.
C19_MiningLeavesReads ==
    \A p \in Peers : \A q \in Peers :
        (/\ net[p].mining
         /\ ~is_terminating[p]
         /\ q \in reading[p]
         /\ chan[q][p] # <<>>
         /\ Head(chan[q][p]).type \in {"ADD_TX", "CONFIRM_TX", "COMMIT_TX",
                                       "status", "terminate"})
            => ENABLED handle_messages(p, q)

\* no task of any PeerNetwork has a step left
PeerNetwork_quiet ==
    ~ ENABLED (\/ \E p \in AllPeers : connect_peers(p)
               \/ \E p \in AllPeers : \E q \in AllPeers : handle_connection(p, q)
               \/ \E p \in AllPeers : status_broadcast(p)
               \/ \E p \in AllPeers : mine_block_begins(p)
               \/ \E p \in AllPeers : mine_block_ends(p)
               \/ \E p \in AllPeers : \E q \in AllPeers : handle_messages(p, q))

\* C20. Shutdown completes: once p has started terminating and the tasks of
\* the network have come to rest, p's round-driving and status tasks have
\* stopped, every channel of its writers map is closed, its listening endpoint
\* is released and its start() has returned (assignment_4 PeerNetwork).
C20_ShutdownCompletes ==
    \A p \in Peers :
        (is_terminating[p] /\ PeerNetwork_quiet)
            => /\ ~net[p].status_task /\ ~net[p].consensus_task
               /\ writers[p] \subseteq net[p].closing
               /\ ~net[p].server
               /\ net[p].start = "done"

\* C21. Leader path ordering: whenever a leader broadcasts AddTx(block) for
\* round r, it holds that same block as pending_tx[r].
C21_LeaderStoresPending ==
    [][\A p \in Peers : \A q \in Peers :
          (/\ Len(chan'[p][q]) = Len(chan[p][q]) + 1
           /\ chan'[p][q][Len(chan'[p][q])].type = "ADD_TX")
              => LET tx == chan'[p][q][Len(chan'[p][q])].transaction
                 IN  /\ tx.round_id \in DOMAIN consensus'[p].pending_tx
                     /\ consensus'[p].pending_tx[tx.round_id] = tx]_vars

\* C22. Commit re-verification: a block is appended to a peer's chain only
\* if verify_transaction holds for it against the peer's state at the moment
\* of the append, on whichever path the append is made.
C22_AppendsVerified ==
    [][\A p \in Peers :
          consensus'[p].chain # consensus[p].chain
              => verify_transaction(consensus[p],
                                    consensus'[p].chain[Len(consensus'[p].chain)])]_vars

C22_Witness ==
    \E p \in Peers :
        /\ Len(Chain(p)) = 2
        /\ verify_transaction([consensus[p] EXCEPT !.chain = <<Chain(p)[1]>>,
                                                   !.current_round = Chain(p)[2].round_id,
                                                   !.terminated = FALSE],
                              Chain(p)[2])

\* C23. Round advance on commit: a CommitTx whose block passes verification,
\* with round_id r >= current_round (r above current_round included), has the
\* block appended and current_round become max(current_round, r + 1).
C23_CommitAdvancesRound ==
    \A p \in Peers : \A b \in MinedOn(p) :
        LET cs == consensus[p]
            e  == handle_commit_tx(p, create_commit_tx(b))
        IN  verify_transaction(cs, b)
                => /\ e.consensus.chain = Append(cs.chain, b)
                   /\ e.consensus.current_round =
                         IF cs.current_round > b.round_id + 1
                         THEN cs.current_round ELSE b.round_id + 1

\* C24. Commit result value: commit_transaction returns a true value exactly
\* when it appended the block, and _handle_commit_tx logs a successful commit
\* exactly when the chain grew.
C24_CommitResult ==
    \A p \in Peers : \A b \in MinedOn(p) :
        LET cs == consensus[p]
            msg == create_commit_tx(b)
        IN  /\ Truthy(commit_transaction_returns(cs, b))
                <=> commit_transaction(cs, b).chain # cs.chain
            /\ handle_commit_tx_logs(p, msg) = "Successfully committed"
                <=> handle_commit_tx(p, msg).consensus.chain # cs.chain

\* C25. Follower path: on an AddTx whose block passes verify_transaction, a
\* follower records the block as pending_tx[round_id] and sends exactly one
\* ConfirmTx(round_id, self_id), to the peer round_id mod N and to no other.
C25_FollowerConfirms ==
    \A p \in Peers : \A b \in MinedOn(p) :
        LET cs == consensus[p]
            e  == handle_add_tx(p, create_add_tx(b))
        IN  (/\ reading[p] # {}
             /\ b.round_id % total_peers # p
             /\ verify_transaction(cs, b))
                => /\ e.consensus.pending_tx = DictPut(cs.pending_tx, b.round_id, b)
                   /\ e.dests = {b.round_id % total_peers}
                   /\ e.msg = create_confirm_tx(b.round_id, p)

\* C25, amended. On an AddTx whose block passes verify_transaction, a peer
\* records the block as pending_tx[round_id], changes nothing else and raises
\* nothing; it sends ConfirmTx(round_id, self_id) to the peer round_id mod N
\* if it holds a writer for that peer, and writes no other line to any peer.
C25_FollowerConfirmsLeaderInWriters ==
    \A p \in Peers : \A b \in MinedOn(p) :
        LET cs == consensus[p]
            e  == handle_add_tx(p, create_add_tx(b))
            leader_id == b.round_id % total_peers
        IN  verify_transaction(cs, b)
                => /\ e.consensus = [cs EXCEPT !.pending_tx = DictPut(@, b.round_id, b)]
                   /\ ~e.raised
                   /\ e.dests = IF leader_id \in writers[p] THEN {leader_id} ELSE {}
                   /\ e.dests # {} => e.msg = create_confirm_tx(b.round_id, p)

C25_Witness ==
    \E p \in Peers : \E r \in DOMAIN consensus[p].pending_tx :
        LET leader_id == r % total_peers
        IN  /\ leader_id # p
            /\ Cardinality(writers[p]) >= 2
            /\ chan[p][leader_id] = <<create_confirm_tx(r, p)>>
            /\ \A q \in Peers \ {leader_id} : chan[p][q] = <<>>

\* the blocks an AddTx or CommitTx read by a peer may carry: mined on any tip
\* for any round and payload, as mined or with one part off
Blocks ==
    {Tampered(Sealed(t, r, pl), how) :
        <<t, r, pl, how>> \in Tips \X Rounds \X Payloads \X TamperKinds}

\* b is wrong for the peer with consensus object cs: wrong prev_hash, wrong
\* sequence, leader_id other than round_id mod N, too few leading zeros, hash
\* mismatch, or a round below current_round
C26_Wrong(cs, b) ==
    \/ b.prev_hash # (IF cs.chain # <<>> THEN cs.chain[Len(cs.chain)].curr_hash ELSE Genesis)
    \/ b.sequence # Len(cs.chain)
    \/ b.leader_id # b.round_id % cs.total_peers
    \/ \E i \in 1 .. target_zeros : i > Len(b.curr_hash) \/ b.curr_hash[i] # "0"
    \/ b.curr_hash # calculate_hash(b, b.nonce)
    \/ b.round_id < cs.current_round

\* C26. Rejection leaves state unchanged: an AddTx or CommitTx whose block is
\* wrong leaves chain, current_round, pending_tx and confirmations as they
\* were, sends no message, and raises nothing (the sender is not dropped).
C26_RejectionNoEffect ==
    \A p \in Peers : \A b \in Blocks :
        C26_Wrong(consensus[p], b)
            => /\ handle_add_tx(p, create_add_tx(b)) = Effect(consensus[p], {}, NoMsg, FALSE)
               /\ handle_commit_tx(p, create_commit_tx(b))
                     = Effect(consensus[p], {}, NoMsg, FALSE)

C26_Witness ==
    \E p \in Peers : \E b \in MinedOn(p) :
        /\ consensus[p].current_round = 1
        /\ ~consensus[p].terminated
        /\ b.round_id = 0
        /\ b.leader_id = 0
        /\ b.prev_hash = Chain(p)[Len(Chain(p))].curr_hash
        /\ b.sequence = Len(Chain(p))
        /\ C26_Wrong(consensus[p], b)

\* C27. Handling a ConfirmTx is not an error: when the leader of round r,
\* holding a pending block for r = current_round, reads ConfirmTx(r, q) on its
\* channel from q, nothing is raised (q stays connected and read) and q is in
\* the confirmation set of r, unless r is committed by that very ConfirmTx.
C27_ConfirmHandled ==
    \A p \in Peers : \A q \in reading[p] : \A r \in Rounds :
        LET cs == consensus[p]
            e  == handle_confirm_tx(p, create_confirm_tx(r, q))
        IN  (/\ is_leader(cs, r)
             /\ r = cs.current_round
             /\ r \in DOMAIN cs.pending_tx)
                => /\ ~e.raised
                   /\ \/ q \in Confirmed(e.consensus, r)
                      \/ e.consensus.current_round > r

\* C29. One proposal per round: the AddTx lines a leader writes for one round
\* all carry the same block, however long the round stays uncommitted, and a
\* follower writes one ConfirmTx for a round.
C29_OneProposalPerRound ==
    \A p \in Peers : \A q \in Peers :
        \A i \in 1 .. Len(chan[p][q]) : \A k \in 1 .. Len(chan[p][q]) :
            /\ (/\ chan[p][q][i].type = "ADD_TX"
                /\ chan[p][q][k].type = "ADD_TX"
                /\ chan[p][q][i].transaction.round_id = chan[p][q][k].transaction.round_id)
                   => chan[p][q][i].transaction = chan[p][q][k].transaction
            /\ (/\ chan[p][q][i].type = "CONFIRM_TX"
                /\ chan[p][q][k].type = "CONFIRM_TX"
                /\ chan[p][q][i].round_id = chan[p][q][k].round_id)
                   => i = k

\* C30. Bookkeeping cleanup: in every reachable state of a peer, for every
\* round r below current_round there is no pending_tx entry for r and the
\* confirmation set of r is empty; add_confirmation for such a round records
\* nothing.
C30_NoStaleBookkeeping ==
    \A p \in Peers : \A r \in 0 .. (MaxRound + 1) :
        r < consensus[p].current_round
            => /\ r \notin DOMAIN consensus[p].pending_tx
               /\ Confirmed(consensus[p], r) = {}
               /\ \A q \in Peers : add_confirmation(consensus[p], r, q).cs = consensus[p]

C30_Witness ==
    \E p \in Peers :
        /\ consensus[p].current_round = 1
        /\ Chain(p)[1].round_id = 0
        /\ DOMAIN consensus[p].pending_tx = {1}

\* C31. No leader failover: create_transaction gives None and changes nothing
\* at a peer that is not the leader of the round; every AddTx a peer writes is
\* for a round r with r mod N = its id; and current_round changes only in a
\* step that appends a block of that round to the chain (a commit), by one.
C31_NoFailover ==
    /\ [](\A p \in Peers : \A r \in Rounds : \A pl \in Payloads :
            ~is_leader(consensus[p], r)
                => /\ ~create_transaction(consensus[p], r, pl).made
                   /\ create_transaction(consensus[p], r, pl).cs = consensus[p])
    /\ [][\A p \in Peers :
            /\ \A q \in Peers :
                  (/\ Len(chan'[p][q]) = Len(chan[p][q]) + 1
                   /\ chan'[p][q][Len(chan'[p][q])].type = "ADD_TX")
                      => chan'[p][q][Len(chan'[p][q])].transaction.round_id % total_peers = p
            /\ consensus'[p].current_round # consensus[p].current_round
                  => /\ Len(consensus'[p].chain) = Len(consensus[p].chain) + 1
                     /\ consensus'[p].chain[Len(consensus'[p].chain)].round_id
                           = consensus[p].current_round
                     /\ consensus'[p].current_round = consensus[p].current_round + 1]_vars

C31_Witness ==
    \E p \in Peers : \E q \in Peers :
        /\ consensus[p].mining_attempts # <<>>
        /\ consensus[p].current_round = 1
        /\ ~is_leader(consensus[p], 1)
        /\ \E i \in 1 .. Len(chan[p][q]) : chan[p][q][i].type = "ADD_TX"

\* C32. Mining result: for the leader p of round r and any payload,
\* create_transaction does not give None; its block has sequence = chain
\* length and prev_hash = the curr_hash of the chain's tail (64 zeros on an
\* empty chain); its nonce n is the least whose hash starts with target_zeros
\* '0' digits, its curr_hash is calculate_hash(n), and the attempts recorded
\* are n + 1.
C32_MiningResult ==
    \A p \in Peers : \A r \in Rounds : \A pl \in Payloads :
        LET cs == consensus[p]
            c  == create_transaction(cs, r, pl)
            m  == mine_block(candidate(cs, r, pl))
        IN  is_leader(cs, r)
                => /\ c.made
                   /\ c.tx.sequence = Len(cs.chain)
                   /\ c.tx.prev_hash = (IF cs.chain = <<>> THEN Genesis
                                        ELSE cs.chain[Len(cs.chain)].curr_hash)
                   /\ c.tx.round_id = r /\ c.tx.leader_id = p /\ c.tx.payload = pl
                   /\ StartsWith(c.tx.curr_hash, Zeros(target_zeros))
                   /\ c.tx.curr_hash = calculate_hash(c.tx, c.tx.nonce)
                   /\ \A k \in 0 .. (c.tx.nonce - 1) :
                         ~StartsWith(calculate_hash(c.tx, k), Zeros(target_zeros))
                   /\ c.cs.mining_attempts = Append(cs.mining_attempts, c.tx.nonce + 1)
                   /\ m = [nonce |-> c.tx.nonce, curr_hash |-> c.tx.curr_hash,
                           attempts |-> c.tx.nonce + 1]

C32_Witness ==
    \E p \in Peers : \E q \in Peers : \E i \in 1 .. Len(chan[p][q]) :
        /\ chan[p][q][i].type = "ADD_TX"
        /\ chan[p][q][i].transaction.sequence > 0
        /\ chan[p][q][i].transaction.nonce > 0
        /\ consensus[p].mining_attempts = <<chan[p][q][i].transaction.nonce + 1>>

\* C33. Round-driving is gated on connectivity: a peer that is mining, has
\* mined a block or has written an AddTx has made its 'active' transition,
\* and that transition is made only with at least N div 2 peers in connected.
C33_GatedOnActive ==
    /\ [](\A p \in Peers :
            (\/ net[p].mining
             \/ consensus[p].mining_attempts # <<>>
             \/ \E q \in Peers : \E i \in 1 .. Len(chan[p][q]) :
                   chan[p][q][i].type = "ADD_TX")
                => net[p].is_active /\ net[p].active_time > 0)
    /\ [][\A p \in Peers :
            (net'[p].is_active /\ ~net[p].is_active)
                => Cardinality(connected'[p]) >= total_peers \div 2]_vars

C33_Witness ==
    \E p \in Peers :
        /\ net[p].refused # {}
        /\ net[p].is_active
        /\ consensus[p].mining_attempts # <<>>
        /\ \E q \in Peers : \E i \in 1 .. Len(chan[p][q]) : chan[p][q][i].type = "ADD_TX"

\* p accepts in this step the connection q opened: it reads q's connect line
C34_Accepts(p, q) ==
    /\ chan[q][p] # <<>>
    /\ Head(chan[q][p]).type = "connect"
    /\ chan'[q][p] = Tail(chan[q][p])

\* C34. Connect handshake on both sides, as stated: whenever a peer p gets a
\* connection to q, opened or accepted, it records q in connected and in
\* writers and writes a Connect line with its own id to q.
C34_BothSendConnect ==
    [][\A p \in Peers : \A q \in Peers \ {p} :
          (C34_Accepts(p, q) \/ q \in connected'[p] \ connected[p])
              => /\ q \in connected'[p]
                 /\ q \in writers'[p]
                 /\ chan'[p][q] = Append(chan[p][q], connect_msg(p))]_vars

\* C34. Connect handshake, the opener alone sending: the peer that opens a
\* connection records the other's id in connected and in writers and writes
\* a Connect line with its own id; the peer that accepts it reads that line,
\* records the id it carries in connected and in writers, and writes nothing.
C34_OpenerSendsConnect ==
    [][\A p \in Peers : \A q \in Peers \ {p} :
          /\ (q \in connected'[p] \ connected[p] /\ ~C34_Accepts(p, q))
                => /\ q \in writers'[p]
                   /\ chan'[p][q] = Append(chan[p][q], connect_msg(p))
          /\ C34_Accepts(p, q)
                => /\ Head(chan[q][p]) = connect_msg(q)
                   /\ q \in connected'[p]
                   /\ q \in writers'[p]
                   /\ \A x \in Peers : chan'[p][x] = chan[p][x]]_vars

C34_Witness ==
    \E p \in Peers : \E q \in Peers \ {p} :
        /\ net[q].refused = {p}
        /\ q \in connected[p] /\ q \in writers[p]
        /\ p \in connected[q] /\ p \in writers[q]
        /\ chan[p][q] = <<>> /\ chan[q][p] = <<>>

\* C35. Block index invariant: in every reachable state, the block at index k
\* (from 0) of every peer's chain has sequence k and leader_id = round_id mod N.
C35_BlockIndex ==
    \A p \in Peers : \A k \in 1 .. Len(Chain(p)) :
        /\ Chain(p)[k].sequence = k - 1
        /\ Chain(p)[k].leader_id = Chain(p)[k].round_id % total_peers

C35_Witness ==
    \E p \in Peers :
        /\ Len(Chain(p)) = 2
        /\ Chain(p)[2].sequence = 1
        /\ Chain(p)[2].leader_id = 1

\* C36. Round/chain coupling: in every reachable state of every peer the
\* chain is as long as current_round, and the block at index k (from 0) has
\* round_id k.
C36_RoundIsLength ==
    \A p \in Peers :
        /\ Len(Chain(p)) = consensus[p].current_round
        /\ \A k \in 1 .. Len(Chain(p)) : Chain(p)[k].round_id = k - 1

C36_Witness ==
    \E p \in Peers :
        /\ consensus[p].current_round = 2
        /\ Chain(p)[1].round_id = 0
        /\ Chain(p)[2].round_id = 1

\* the consensus objects a handler of p may leave on one more line: an AddTx
\* or a CommitTx for a block mined on p's chain, or a ConfirmTx
C37_After(p) ==
    {handle_add_tx(p, create_add_tx(b)).consensus : b \in MinedOn(p)} \cup
    {handle_commit_tx(p, create_commit_tx(b)).consensus : b \in MinedOn(p)} \cup
    {handle_confirm_tx(p, create_confirm_tx(r, q)).consensus :
        <<r, q>> \in Rounds \X Peers}

\* C37. Termination flag: in every reachable state of every peer, terminated
\* holds iff the chain has at least N blocks and the chain has at most N
\* blocks; and after any further AddTx, CommitTx or ConfirmTx that is still
\* so, and a flag that was set stays set.
C37_TerminatedFlag ==
    \A p \in Peers :
        /\ consensus[p].terminated <=> Len(Chain(p)) >= total_peers
        /\ Len(Chain(p)) <= total_peers
        /\ \A cs \in C37_After(p) :
              /\ cs.terminated <=> Len(cs.chain) >= total_peers
              /\ Len(cs.chain) <= total_peers
              /\ consensus[p].terminated => cs.terminated

C37_Witness ==
    \E p \in Peers :
        /\ consensus[p].terminated
        /\ Len(Chain(p)) = total_peers
        /\ \E b \in MinedOn(p) :
              /\ b.round_id = consensus[p].current_round
              /\ handle_commit_tx(p, create_commit_tx(b)).consensus = consensus[p]

\* how many Terminate lines the sequence of lines w holds
TerminateLines(w) == Cardinality({i \in 1 .. Len(w) : w[i].type = "terminate"})

C38_SeveralHeld ==
    \E p \in Peers : Cardinality(peer[p].waiting) >= 2

\* the same for assignment_4: _terminate writes its Terminate lines in the
\* step that sets is_terminating, and the flag stays set
PeerNetwork_terminates_once ==
    [][\A p \in Peers :
          /\ is_terminating[p] => is_terminating'[p]
          /\ (\E q \in Peers : TerminateLines(chan'[p][q]) > TerminateLines(chan[p][q]))
                => /\ ~is_terminating[p] /\ is_terminating'[p]
                   /\ \A q \in Peers :
                         TerminateLines(chan'[p][q]) <= TerminateLines(chan[p][q]) + 1]_vars

\* C39. Termination is initiated only when fully connected (assignment_3): a
\* peer writes a Terminate line only if it is active and its fully-connected
\* event is set, the event is set only with N - 1 peers in connected, and a
\* Status read while the peer is not active is not counted.
C39_InitiatesWhenFull ==
    /\ [](\A p \in Peers :
            /\ peer[p].messages_received # {} => peer[p].is_active
            /\ peer[p].can_terminate => peer[p].all_peers_connected
            /\ peer[p].all_peers_connected => peer[p].fully_connected_time > 0
            /\ \A q \in peer[p].readers : \A x \in Peers :
                  ~peer[p].is_active
                      => LET o == Peer_on_line(peer[p], q, Peer_status_msg(x))
                         IN  /\ o.pr.messages_received = peer[p].messages_received
                             /\ o.dests = {})
    /\ [][\A p \in Peers :
            /\ (\E q \in Peers : TerminateLines(chan'[p][q]) > TerminateLines(chan[p][q]))
                  => /\ peer[p].is_active
                     /\ peer[p].all_peers_connected
                     /\ Cardinality(peer[p].messages_received) + 1
                           >= (2 * total_peers) \div 3
            /\ (peer'[p].all_peers_connected /\ ~peer[p].all_peers_connected)
                  => \/ Cardinality(peer'[p].connected) = total_peers - 1
                     \/ peer[p].terminate_received]_vars

C39_Witness ==
    \E p \in Peers : \E q \in Peers :
        /\ total_peers = 3
        /\ peer[p].all_peers_connected
        /\ peer[p].can_terminate
        /\ Cardinality(peer[p].messages_received) >= 2
        /\ TerminateLines(chan[p][q]) = 1

C39_NotActiveReads ==
    \E p \in Peers : peer[p].readers # {} /\ ~peer[p].is_active

\* C40. Frame condition of ConfirmTx: a ConfirmTx(r, q) read by a peer that is
\* not the leader of r, or holds no pending block for r, or has r below its
\* current_round, leaves chain, current_round, pending_tx and every
\* confirmation set as they were and has no line written.
C40_ConfirmFrame ==
    \A p \in Peers : \A q \in Peers : \A r \in 0 .. (MaxRound + 1) :
        LET cs == consensus[p]
            e  == handle_confirm_tx(p, create_confirm_tx(r, q))
        IN  (\/ ~is_leader(cs, r)
             \/ r \notin DOMAIN cs.pending_tx
             \/ r < cs.current_round)
                => /\ e.consensus.chain = cs.chain
                   /\ e.consensus.current_round = cs.current_round
                   /\ e.consensus.pending_tx = cs.pending_tx
                   /\ e.consensus.confirmations = cs.confirmations
                   /\ e.dests = {}

C40_Witness ==
    \E p \in Peers :
        /\ consensus[p].current_round = 1
        /\ <<0, total_peers - 1>> \in confirm_seen[p]
        /\ (total_peers - 1) \in reading[p]
        /\ consensus[p].confirmations = EmptyDict

====
